---------------------------- MODULE Spec2Model ----------------------------
(***************************************************************************)
(* VelocityEstimator of motion_imitation/robots/                           *)
(* a1_robot_velocity_estimator.py: a linear Kalman filter over the base    *)
(* velocity (accelerometer as control input, contact-leg kinematics as     *)
(* measurement) followed by one moving-average filter per axis.            *)
(*                                                                         *)
(* Numbers.  The program computes in IEEE doubles; the model computes in   *)
(* exact rationals <<numerator, denominator>> (denominator > 0, lowest     *)
(* terms), so 0.1 is <<1, 10>> and 9.8 is <<49, 5>>.  Rounding error is    *)
(* outside the model.                                                      *)
(*                                                                         *)
(* Matrices.  Every matrix of the filter is np.eye(3) times a scalar       *)
(* (lines 41-47) and F = H = B = I, so P, Q and R stay diagonal; each is   *)
(* held as its diagonal, a 3-vector.  A rotation matrix and a leg Jacobian *)
(* are full 3x3 matrices (a tuple of rows).                                *)
(*                                                                         *)
(* Arrays.  numpy arrays are mutable objects; the cached estimate and the  *)
(* arrays handed to the caller live in `heap`, addressed by reference, so  *)
(* that a copy and an alias are different things.                          *)
(***************************************************************************)
EXTENDS Integers, Sequences, FiniteSets

VARIABLES
  constructed,          \* __init__ has run
  x,                    \* self.filter.x
  P,                    \* self.filter.P (diagonal)
  Q,                    \* self.filter.Q (diagonal)
  R,                    \* self.filter.R (diagonal)
  _initial_variance,    \* self._initial_variance
  _window_size,         \* self._window_size
  mwf,                  \* moving_window_filter_x, _y, _z
  _estimated_velocity,  \* self._estimated_velocity: a reference into heap
  _last_timestamp,      \* self._last_timestamp
  heap,                 \* the live numpy arrays, by reference
  robot,                \* what the robot reported to the last update
  reader,               \* the caller's side of estimated_velocity
  call,                 \* what the last update call observed (history)
  k,                    \* update calls since construction or the last reset
  ticks,                \* update calls since construction
  raw,                  \* filter.x as smoothed by each update since the last reset
  resets                \* reset calls in a row (saturates at 2)

vars == <<constructed, x, P, Q, R, _initial_variance, _window_size, mwf,
          _estimated_velocity, _last_timestamp, heap, robot, reader, call,
          k, ticks, raw, resets>>

----------------------------------------------------------------------------
(* Bounds of the model. *)

\* update calls per run of the lifecycle specification
MaxTicks == 3
\* update calls per run of the snapshot specification
SnapshotTicks == 2
\* update calls per run of the sensor-fusion specification
FusionTicks == 2
\* update calls per run of the scenario specification
ScenarioTicks == 5

----------------------------------------------------------------------------
(* Exact rational arithmetic. *)

Abs(n) == IF n < 0 THEN -n ELSE n

RECURSIVE GCD(_, _)
GCD(a, b) == IF b = 0 THEN a ELSE GCD(b, a % b)

Rat(n, d) ==
  LET g == GCD(Abs(n), Abs(d))
      s == IF d < 0 THEN -1 ELSE 1
  IN  <<s * (n \div g), s * (d \div g)>>

Int2Rat(n) == <<n, 1>>
Zero == <<0, 1>>
One == <<1, 1>>

RAdd(a, b) ==
  LET g == GCD(a[2], b[2])
  IN  Rat(a[1] * (b[2] \div g) + b[1] * (a[2] \div g), (a[2] \div g) * b[2])
RNeg(a) == <<-a[1], a[2]>>
RSub(a, b) == RAdd(a, RNeg(b))
RMul(a, b) ==
  LET g1 == GCD(Abs(a[1]), b[2])
      g2 == GCD(Abs(b[1]), a[2])
  IN  <<(a[1] \div g1) * (b[1] \div g2), (a[2] \div g2) * (b[2] \div g1)>>
\* b is not zero
RDiv(a, b) == RMul(a, IF b[1] < 0 THEN <<-b[2], -b[1]>> ELSE <<b[2], b[1]>>)
RLt(a, b) == RSub(a, b)[1] < 0
RLe(a, b) == RSub(a, b)[1] <= 0

Axes == 1..3
Vec(a, b, c) == <<Int2Rat(a), Int2Rat(b), Int2Rat(c)>>
\* np.zeros(3)
Zeros3 == Vec(0, 0, 0)
\* np.eye(3) * v, as its diagonal
EyeTimes(v) == <<v, v, v>>
VAdd(u, v) == <<RAdd(u[1], v[1]), RAdd(u[2], v[2]), RAdd(u[3], v[3])>>
VSub(u, v) == <<RSub(u[1], v[1]), RSub(u[2], v[2]), RSub(u[3], v[3])>>
VNeg(v) == <<RNeg(v[1]), RNeg(v[2]), RNeg(v[3])>>
VScale(v, s) == <<RMul(v[1], s), RMul(v[2], s), RMul(v[3], s)>>
\* elementwise product and quotient: diagonal matrices among themselves or
\* applied to a vector
VMul(u, v) == <<RMul(u[1], v[1]), RMul(u[2], v[2]), RMul(u[3], v[3])>>
VDiv(u, v) == <<RDiv(u[1], v[1]), RDiv(u[2], v[2]), RDiv(u[3], v[3])>>
Dot(u, v) == RAdd(RAdd(RMul(u[1], v[1]), RMul(u[2], v[2])), RMul(u[3], v[3]))
\* m.dot(v) for a 3x3 matrix m
MatVec(m, v) == <<Dot(m[1], v), Dot(m[2], v), Dot(m[3], v)>>

----------------------------------------------------------------------------
(* MovingWindowFilter (motion_imitation.utilities.moving_window_filter):   *)
(* a fixed-capacity buffer of the most recent samples with a running sum.  *)

\* MovingWindowFilter(window_size=w)
MovingWindowFilter(w) == [window_size |-> w, value_deque |-> <<>>, sum |-> Zero]

\* calculate_average(new_value): the filter after the call and the value
\* returned, the mean of the samples held
calculate_average(f, new_value) ==
  LET full == Len(f.value_deque) >= f.window_size
      kept == IF full THEN Tail(f.value_deque) ELSE f.value_deque
      less == IF full THEN RSub(f.sum, Head(f.value_deque)) ELSE f.sum
      deque == Append(kept, new_value)
      total == RAdd(less, new_value)
  IN  [filter |-> [f EXCEPT !.value_deque = deque, !.sum = total],
       average |-> RDiv(total, Int2Rat(Len(deque)))]

----------------------------------------------------------------------------
(* filterpy.kalman.KalmanFilter with F = H = B = I and diagonal P, Q, R.   *)
(* The library updates P in Joseph form, (I - K H) P (I - K H)' + K R K',   *)
(* which in exact arithmetic is (I - K H) P.                               *)

\* predict(u): x = F x + B u, P = F P F' + Q
KalmanPredict(fx, fP, fQ, u) == [x |-> VAdd(fx, u), P |-> VAdd(fP, fQ)]

\* S = H P H' + R
InnovationCovariance(fP, fR) == VAdd(fP, fR)

\* the inverse of S does not exist
Singular(S) == \E i \in Axes : S[i] = Zero

\* update(z): y = z - H x, K = P H' inv(S), x = x + K y, P = (I - K H) P
KalmanUpdate(fx, fP, fR, z) ==
  LET y == VSub(z, fx)
      S == InnovationCovariance(fP, fR)
      K == VDiv(fP, S)
  IN  [x |-> VAdd(fx, VMul(K, y)),
       P |-> VMul(VSub(EyeTimes(One), K), fP)]

----------------------------------------------------------------------------
(* The robot interface. *)

Legs == 0..3

\* robot.time_step, the nominal control period
time_step == 5

\* gravity as line 87 adds it: np.array([0., 0., -9.8])
Gravity == <<Zero, Zero, <<-49, 5>>>>

\* pybullet_client.getMatrixFromQuaternion(q), q = (x, y, z, w), reshaped
\* to 3x3
getMatrixFromQuaternion(q) ==
  LET d == q[1] * q[1] + q[2] * q[2] + q[3] * q[3] + q[4] * q[4]
      e(a, b) == Rat(2 * a * b, d)
      xx == e(q[1], q[1])
      yy == e(q[2], q[2])
      zz == e(q[3], q[3])
      xy == e(q[1], q[2])
      xz == e(q[1], q[3])
      yz == e(q[2], q[3])
      wx == e(q[4], q[1])
      wy == e(q[4], q[2])
      wz == e(q[4], q[3])
  IN  << <<RSub(One, RAdd(yy, zz)), RSub(xy, wz), RAdd(xz, wy)>>,
         <<RAdd(xy, wz), RSub(One, RAdd(xx, zz)), RSub(yz, wx)>>,
         <<RSub(xz, wy), RAdd(yz, wx), RSub(One, RAdd(xx, yy))>> >>

Mat(r1, r2, r3) ==
  <<Vec(r1[1], r1[2], r1[3]), Vec(r2[1], r2[2], r2[3]), Vec(r3[1], r3[2], r3[3])>>

\* the leg Jacobians of the robot's pose, for leg_id = 0, 1, 2, 3
Jacobians ==
  << Mat(<<1, 0, 0>>, <<0, 1, 0>>, <<0, 0, 1>>),
     Mat(<<2, 0, 0>>, <<0, 1, 0>>, <<0, 0, 1>>),
     Mat(<<1, 1, 0>>, <<0, 1, 0>>, <<0, 0, 1>>),
     Mat(<<0, 1, 0>>, <<1, 0, 0>>, <<0, 0, 1>>) >>

\* robot.ComputeJacobian(leg_id)
ComputeJacobian(leg_id) == Jacobians[leg_id + 1]

\* JointVelocities with the slice taken at leg_id, not leg_id * 3
JointVelocitiesOffByLeg(motor_velocities, leg_id) ==
  SubSeq(motor_velocities, leg_id + 1, leg_id + 3)

\* GetMotorVelocities()[leg_id * 3:(leg_id + 1) * 3]
JointVelocities(motor_velocities, leg_id) ==
  SubSeq(motor_velocities, leg_id * 3 + 1, (leg_id + 1) * 3)

\* lines 105-111 for one leg: the base velocity the leg implies, rotated
LegObservation(sensors, rot_mat, leg_id) ==
  LET jacobian == ComputeJacobian(leg_id)
      joint_velocities == JointVelocities(sensors.motor_velocities, leg_id)
      leg_velocity_in_base_frame ==
        MatVec(jacobian, Vec(joint_velocities[1], joint_velocities[2],
                             joint_velocities[3]))
      base_velocity_in_base_frame == VNeg(leg_velocity_in_base_frame)
  IN  MatVec(rot_mat, base_velocity_in_base_frame)

\* the loop of lines 101-111 from leg_id on: observed_velocities
RECURSIVE ObservedVelocities(_, _, _)
ObservedVelocities(sensors, rot_mat, leg_id) ==
  IF leg_id > 3 THEN <<>>
  ELSE (IF sensors.foot_contact[leg_id + 1]
        THEN <<LegObservation(sensors, rot_mat, leg_id)>>
        ELSE <<>>) \o ObservedVelocities(sensors, rot_mat, leg_id + 1)

RECURSIVE VSum(_)
VSum(vs) == IF vs = <<>> THEN Zeros3 ELSE VAdd(Head(vs), VSum(Tail(vs)))

\* Mean with np.sum in place of np.mean
MeanAsSum(observed_velocities) == VSum(observed_velocities)

\* np.mean(observed_velocities, axis=0)
Mean(observed_velocities) ==
  VScale(VSum(observed_velocities), <<1, Len(observed_velocities)>>)

\* line 87: rot_mat.dot(sensor_acc) + np.array([0., 0., -9.8])
CalibratedAcc(sensors) ==
  VAdd(MatVec(getMatrixFromQuaternion(sensors.base_orientation),
              sensors.acceleration),
       Gravity)

----------------------------------------------------------------------------
(* What the robot can report, and the parameters and clock values tried.   *)

\* GetMotorVelocities(): twelve joint velocities, three per leg
MotorsA == <<-1, 0, 0, -1, 0, 0, 0, 0, 0, 0, -1, 0>>
MotorsB == <<0, -1, 0, 1, 0, -1, -1, -1, 0, 0, 0, 2>>
MotorsC == <<1, 0, 0, 1, 0, 0, 0, 0, 0, 0, 1, 0>>

\* GetBaseOrientation(), (x, y, z, w): level, and turned half a turn about z
Upright == <<0, 0, 0, 1>>
TurnedAboutZ == <<0, 0, 1, 0>>

\* GetBaseAcceleration(): standing still, and pushed along x and up
AtRest == <<Zero, Zero, <<49, 5>>>>
Pushed == <<One, Zero, <<54, 5>>>>

\* GetFootContacts()
NoContact == <<FALSE, FALSE, FALSE, FALSE>>
AllContact == <<TRUE, TRUE, TRUE, TRUE>>
ContactFlags ==
  {<<a, b, c, d>> : a \in BOOLEAN, b \in BOOLEAN, c \in BOOLEAN, d \in BOOLEAN}

Sensors(acc, quat, contact, motors) ==
  [acceleration |-> acc, base_orientation |-> quat, foot_contact |-> contact,
   motor_velocities |-> motors]

Standing == Sensors(AtRest, Upright, NoContact, MotorsA)

VarianceValues == {Zero, <<1, 10>>}
WindowSizes == {1, 2}
Times == {0, 1, 2}
LifecycleReadings ==
  {Sensors(Pushed, Upright, NoContact, MotorsA),
   Sensors(AtRest, TurnedAboutZ, AllContact, MotorsB)}

Refs == {1, 2}
\* a fresh array: a reference nothing in `held` uses
NewArray(held) == CHOOSE r \in Refs \ held : \A q \in Refs \ held : r <= q

NoCall ==
  [current_time |-> 0, prior_time |-> 0, delta_time_s |-> Zero,
   x_before |-> Zeros3, P_before |-> Zeros3, estimate_before |-> Zeros3,
   raised |-> "none"]

----------------------------------------------------------------------------
(* The estimator. *)

Init ==
  /\ constructed = FALSE
  /\ x = Zeros3
  /\ P = Zeros3
  /\ Q = Zeros3
  /\ R = Zeros3
  /\ _initial_variance = Zero
  /\ _window_size = 0
  /\ mwf = <<MovingWindowFilter(0), MovingWindowFilter(0), MovingWindowFilter(0)>>
  /\ _estimated_velocity = 1
  /\ _last_timestamp = 0
  /\ heap = [r \in Refs |-> Zeros3]
  /\ robot = Standing
  /\ reader = [ref |-> 0, value |-> Zeros3, fresh |-> FALSE]
  /\ call = NoCall
  /\ k = 0
  /\ ticks = 0
  /\ raw = <<>>
  /\ resets = 0

\* VelocityEstimator(robot, accelerometer_variance, sensor_variance,
\*                   initial_variance, moving_window_filter_size)
__init__(accelerometer_variance, sensor_variance, initial_variance, moving_window_filter_size) ==
  /\ ~constructed
  /\ constructed' = TRUE
  /\ x' = Zeros3
  /\ _initial_variance' = initial_variance
  /\ P' = EyeTimes(initial_variance)
  /\ Q' = EyeTimes(accelerometer_variance)
  /\ R' = EyeTimes(sensor_variance)
  /\ _window_size' = moving_window_filter_size
  /\ mwf' = <<MovingWindowFilter(moving_window_filter_size),
              MovingWindowFilter(moving_window_filter_size),
              MovingWindowFilter(moving_window_filter_size)>>
  /\ _estimated_velocity' = 1
  /\ heap' = [r \in Refs |-> Zeros3]
  /\ _last_timestamp' = 0
  /\ UNCHANGED <<robot, reader, call, k, ticks, raw, resets>>

\* reset without lines 62-67: the smoothing buffers are kept
reset_keeping_buffers ==
  /\ constructed
  /\ x' = Zeros3
  /\ P' = EyeTimes(_initial_variance)
  /\ _last_timestamp' = 0
  /\ k' = 0
  /\ raw' = <<>>
  /\ resets' = IF resets < 2 THEN resets + 1 ELSE resets
  /\ UNCHANGED <<constructed, Q, R, _initial_variance, _window_size, mwf,
                 _estimated_velocity, heap, robot, reader, call, ticks>>

\* reset with line 61 scaling the current P instead of np.eye(3)
reset_scaling_P ==
  /\ constructed
  /\ x' = Zeros3
  /\ P' = VMul(P, EyeTimes(_initial_variance))
  /\ mwf' = <<MovingWindowFilter(_window_size), MovingWindowFilter(_window_size),
              MovingWindowFilter(_window_size)>>
  /\ _last_timestamp' = 0
  /\ k' = 0
  /\ raw' = <<>>
  /\ resets' = IF resets < 2 THEN resets + 1 ELSE resets
  /\ UNCHANGED <<constructed, Q, R, _initial_variance, _window_size,
                 _estimated_velocity, heap, robot, reader, call, ticks>>

reset ==
  /\ constructed
  /\ x' = Zeros3
  /\ P' = EyeTimes(_initial_variance)
  /\ mwf' = <<MovingWindowFilter(_window_size), MovingWindowFilter(_window_size),
              MovingWindowFilter(_window_size)>>
  /\ _last_timestamp' = 0
  /\ k' = 0
  /\ raw' = <<>>
  /\ resets' = IF resets < 2 THEN resets + 1 ELSE resets
  /\ UNCHANGED <<constructed, Q, R, _initial_variance, _window_size,
                 _estimated_velocity, heap, robot, reader, call, ticks>>

\* the value _compute_delta_time returns; its caller stores current_time
_compute_delta_time(current_time) ==
  IF _last_timestamp = 0 THEN Int2Rat(time_step)
  ELSE Int2Rat(current_time - _last_timestamp)

\* Correct with a zero measurement standing in when no leg is in contact
CorrectAlways(predicted, observed_velocities) ==
  KalmanUpdate(predicted.x, predicted.P, R,
               IF observed_velocities # <<>> THEN Mean(observed_velocities)
               ELSE Zeros3)

\* lines 115-117: the measurement update, when a leg is in contact
Correct(predicted, observed_velocities) ==
  IF observed_velocities # <<>>
  THEN KalmanUpdate(predicted.x, predicted.P, R, Mean(observed_velocities))
  ELSE predicted

\* Each intermediate value of the method is bound once, in the order the
\* method computes it.
update(current_time, sensors) ==
  /\ constructed
  /\ \E delta_time_s \in {_compute_delta_time(current_time)},
        rot_mat \in {getMatrixFromQuaternion(sensors.base_orientation)},
        calibrated_acc \in {CalibratedAcc(sensors)} :
     \E predicted \in {KalmanPredict(x, P, Q, VScale(calibrated_acc, delta_time_s))},
        observed_velocities \in {ObservedVelocities(sensors, rot_mat, 0)} :
     \* np.linalg.inv raises LinAlgError inside filter.update
     \E fails \in {/\ observed_velocities # <<>>
                   /\ Singular(InnovationCovariance(predicted.P, R))} :
     \E filtered \in {IF fails THEN predicted
                      ELSE Correct(predicted, observed_velocities)} :
     \E vel_x \in {calculate_average(mwf[1], filtered.x[1])},
        vel_y \in {calculate_average(mwf[2], filtered.x[2])},
        vel_z \in {calculate_average(mwf[3], filtered.x[3])},
        array \in {NewArray({reader.ref})} :
        /\ _last_timestamp' = current_time
        /\ x' = filtered.x
        /\ P' = filtered.P
        /\ IF fails
           THEN UNCHANGED <<mwf, _estimated_velocity, heap, raw>>
           ELSE /\ mwf' = <<vel_x.filter, vel_y.filter, vel_z.filter>>
                /\ _estimated_velocity' = array
                /\ heap' = [r \in Refs |->
                              IF r = array
                              THEN <<vel_x.average, vel_y.average, vel_z.average>>
                              ELSE IF r = reader.ref THEN heap[r] ELSE Zeros3]
                /\ raw' = Append(raw, filtered.x)
        /\ robot' = sensors
        /\ reader' = [reader EXCEPT !.fresh = FALSE]
        /\ call' = [current_time |-> current_time,
                    prior_time |-> call.current_time,
                    delta_time_s |-> delta_time_s,
                    x_before |-> x, P_before |-> P,
                    estimate_before |-> heap[_estimated_velocity],
                    raised |-> IF fails THEN "LinAlgError" ELSE "none"]
        /\ k' = k + 1
        /\ ticks' = ticks + 1
        /\ resets' = 0
        /\ UNCHANGED <<constructed, Q, R, _initial_variance, _window_size>>

\* estimated_velocity without .copy(): the caller receives the array itself
estimated_velocity_alias ==
  /\ constructed
  /\ reader' = [ref |-> _estimated_velocity, value |-> heap[_estimated_velocity],
                fresh |-> TRUE]
  /\ UNCHANGED <<constructed, x, P, Q, R, _initial_variance, _window_size,
                 mwf, _estimated_velocity, _last_timestamp, heap, robot, call,
                 k, ticks, raw, resets>>

\* the property estimated_velocity: the caller receives a copy
estimated_velocity ==
  LET copy == NewArray({_estimated_velocity})
  IN  /\ constructed
      /\ heap' = [heap EXCEPT ![copy] = heap[_estimated_velocity]]
      /\ reader' = [ref |-> copy, value |-> heap[_estimated_velocity],
                    fresh |-> TRUE]
      /\ UNCHANGED <<constructed, x, P, Q, R, _initial_variance, _window_size,
                     mwf, _estimated_velocity, _last_timestamp, robot, call,
                     k, ticks, raw, resets>>

\* the caller writes into the array it was handed
CallerWrites(axis, value) ==
  /\ reader.ref # 0
  /\ heap' = [heap EXCEPT ![reader.ref][axis] = value]
  /\ UNCHANGED <<constructed, x, P, Q, R, _initial_variance, _window_size,
                 mwf, _estimated_velocity, _last_timestamp, robot, reader,
                 call, k, ticks, raw, resets>>

----------------------------------------------------------------------------
(* The lifecycle: any construction, then updates and resets.               *)

Construct ==
  \E av \in VarianceValues, sv \in VarianceValues, iv \in VarianceValues,
     w \in WindowSizes : __init__(av, sv, iv, w)

Tick ==
  /\ ticks < MaxTicks
  /\ \E t \in Times, s \in LifecycleReadings : update(t, s)

Next == Construct \/ Tick \/ reset

Spec == Init /\ [][Next]_vars

----------------------------------------------------------------------------
(* The caller's view: an estimator built with the default parameters       *)
(* (lines 21-24), read through estimated_velocity between updates.         *)

ConstructDefault == __init__(<<1, 10>>, <<1, 10>>, <<1, 10>>, 120)

SnapshotTick ==
  /\ ticks < SnapshotTicks
  /\ \E t \in Times, s \in LifecycleReadings : update(t, s)

Read == estimated_velocity

Scribble == \E axis \in Axes : CallerWrites(axis, Int2Rat(7))

SnapshotNext == ConstructDefault \/ SnapshotTick \/ reset \/ Read \/ Scribble

SnapshotSpec == Init /\ [][SnapshotNext]_vars

----------------------------------------------------------------------------
(* Sensor fusion: the default estimator in a control loop that ticks at    *)
(* the nominal period, under every contact pattern.                        *)

FusionReadings ==
  {Sensors(pose[1], pose[2], contact, motors) :
     pose \in {<<AtRest, Upright>>, <<Pushed, TurnedAboutZ>>},
     contact \in ContactFlags,
     motors \in {MotorsA, MotorsB}}

FusionTick ==
  /\ ticks < FusionTicks
  /\ \E t \in {time_step * (ticks + 1)}, s \in FusionReadings : update(t, s)

FusionNext == ConstructDefault \/ FusionTick

FusionSpec == Init /\ [][FusionNext]_vars

----------------------------------------------------------------------------
(* What the claims say of a reading, stated without the estimator's code.  *)

ContactLegs(sensors) == {leg \in Legs : sensors.foot_contact[leg + 1]}

\* rot * (-Jacobian(leg) * the leg's three motor velocities, 3 leg .. 3 leg + 2)
LegDerivedVelocity(sensors, leg) ==
  MatVec(getMatrixFromQuaternion(sensors.base_orientation),
         VNeg(MatVec(ComputeJacobian(leg),
                     Vec(sensors.motor_velocities[3 * leg + 1],
                         sensors.motor_velocities[3 * leg + 2],
                         sensors.motor_velocities[3 * leg + 3]))))

RECURSIVE SumOverLegs(_, _)
SumOverLegs(sensors, legs) ==
  IF legs = {} THEN Zeros3
  ELSE LET leg == CHOOSE l \in legs : TRUE
       IN  VAdd(LegDerivedVelocity(sensors, leg),
                SumOverLegs(sensors, legs \ {leg}))

\* the unweighted mean over the legs in contact (there is one)
ContactMeasurement(sensors) ==
  VScale(SumOverLegs(sensors, ContactLegs(sensors)),
         <<1, Cardinality(ContactLegs(sensors))>>)

Positive(r) == r[1] > 0

\* the cached estimate, as estimated_velocity would return it
Estimate == heap[_estimated_velocity]

BuffersEmpty == \A axis \in Axes : mwf[axis].value_deque = <<>> /\ mwf[axis].sum = Zero

\* every field of the estimator, arrays by value
Estimator ==
  <<x, P, Q, R, _initial_variance, _window_size, mwf, _last_timestamp, Estimate>>

----------------------------------------------------------------------------
(* The scenario: default parameters, zero calibrated acceleration and a    *)
(* contact-derived measurement of (1, 0, 0) on every tick.                 *)

ScenarioReadings ==
  {s \in {Sensors(acc, quat, contact, motors) :
            acc \in {AtRest, Pushed}, quat \in {Upright, TurnedAboutZ},
            contact \in ContactFlags, motors \in {MotorsA, MotorsB, MotorsC}} :
     /\ CalibratedAcc(s) = Zeros3
     /\ ContactLegs(s) # {}
     /\ ContactMeasurement(s) = Vec(1, 0, 0)}

ScenarioTick ==
  /\ ticks < ScenarioTicks
  /\ \E t \in Times, s \in ScenarioReadings : update(t, s)

ScenarioNext == ConstructDefault \/ ScenarioTick

ScenarioSpec == Init /\ [][ScenarioNext]_vars

----------------------------------------------------------------------------
(* The claims. *)

\* C1: after reset() the estimator equals the freshly constructed one in
\* every field the constructor initialises: x is zero, P is the initial
\* covariance, the three smoothing buffers are empty, the last timestamp is
\* unset and the cached estimate read through estimated_velocity is zero.
C1_ResetRestoresConstruction ==
  resets >= 1 =>
    /\ x = Zeros3
    /\ P = EyeTimes(_initial_variance)
    /\ BuffersEmpty
    /\ _last_timestamp = 0
    /\ Estimate = Zeros3

\* C2: the nominal control period is the elapsed time of the first update
\* after construction or reset, and of no other: every later update uses
\* its current_time minus the current_time of the update before it.
C2_NominalPeriodOnFirstUpdateOnly ==
  /\ k = 1 => call.delta_time_s = Int2Rat(time_step)
  /\ k > 1 => call.delta_time_s = Int2Rat(call.current_time - call.prior_time)

\* C3: an update that is not the first since construction or reset and
\* whose current_time is not after the previous one fails with a timing
\* error and leaves x and P as they were.  (Stated for an update whose
\* predecessor left a timestamp other than 0, so that the elapsed time is
\* the difference of the two.)
C3_ClockRegressionIsRejected ==
  (k > 1 /\ call.prior_time # 0 /\ call.current_time - call.prior_time <= 0) =>
    /\ call.raised = "TimingError"
    /\ x = call.x_before
    /\ P = call.P_before

\* C4: no estimator exists whose accelerometer variance, sensor variance,
\* initial variance or window size is zero or negative.
C4_ParametersArePositive ==
  constructed =>
    /\ \A axis \in Axes : Positive(Q[axis]) /\ Positive(R[axis])
    /\ Positive(_initial_variance)
    /\ _window_size > 0

\* C5: after an update in which no leg reported contact, no error was
\* raised and the filter state is exactly the predict result:
\* x = x_old + calibrated_acceleration * elapsed_time and P = P_old + Q,
\* whatever the ticks before it did.
C5_NoContactIsPurePredict ==
  (k >= 1 /\ ContactLegs(robot) = {}) =>
    /\ call.raised = "none"
    /\ x = VAdd(call.x_before, VScale(CalibratedAcc(robot), call.delta_time_s))
    /\ P = VAdd(call.P_before, Q)

\* a second tick without contact that moved x, after a first tick whose
\* measurement update had shrunk P
C5_Witness ==
  /\ k = 2
  /\ ContactLegs(robot) = {}
  /\ x # call.x_before
  /\ call.P_before # VAdd(EyeTimes(_initial_variance), Q)

\* C6: estimated_velocity returns a snapshot copy: what the caller writes
\* into a returned array changes neither the cached estimate nor the filter
\* state nor the smoothing buffers; a read with no update since the last
\* read returns the value the last read returned; and an update leaves an
\* array returned earlier as it was.
C6_SnapshotIsACopy ==
  [][ /\ Scribble => /\ Estimate' = Estimate
                     /\ UNCHANGED <<x, P, mwf>>
      /\ (Read /\ reader.fresh) => reader'.value = reader.value
      /\ (k' = k + 1 /\ reader.ref # 0) =>
           /\ reader'.ref = reader.ref
           /\ heap'[reader.ref] = heap[reader.ref]
    ]_vars

\* the caller holds an array it has written into, read before the last
\* update, and the cached estimate has a different value
C6_Witness ==
  /\ reader.ref # 0
  /\ ~reader.fresh
  /\ k >= 1
  /\ heap[reader.ref] # reader.value
  /\ heap[reader.ref] # Estimate
  /\ Estimate # reader.value

\* C7: after an update, each axis of the cached estimate lies between the
\* least and the greatest of that axis of the raw filter outputs of the
\* most recent min(n, window_size) updates, n counting the updates smoothed
\* since construction or the last reset; samples from before a reset do not
\* count.  With positive variances every update is smoothed, so n is the
\* number k of update calls.
C7_SmoothedWithinRecentRaw ==
  /\ (Positive(Q[1]) /\ Positive(R[1]) /\ Positive(_initial_variance)) =>
       (Len(raw) = k /\ call.raised = "none")
  /\ (k >= 1 /\ raw # <<>>) =>
       LET n == IF Len(raw) < _window_size THEN Len(raw) ELSE _window_size
           recent == SubSeq(raw, Len(raw) - n + 1, Len(raw))
       IN  \A axis \in Axes :
             /\ \E i \in 1..n : RLe(recent[i][axis], Estimate[axis])
             /\ \E i \in 1..n : RLe(Estimate[axis], recent[i][axis])

\* two updates since a reset that followed an update, in a window of two:
\* the estimate is the mean of the two raw outputs and is neither of them
C7_Witness ==
  /\ _window_size = 2
  /\ Len(raw) = 2
  /\ ticks > k
  /\ Estimate # raw[1]
  /\ Estimate # raw[2]

\* C8: in the scenario (variances 0.1, window 120, zero calibrated
\* acceleration and a measurement of (1, 0, 0) on each of 5 ticks) the x
\* component of the smoothed estimate grows strictly from tick to tick,
\* starting from the initial 0, and stays below 1, and the y and z
\* components stay 0.
C8_ScenarioRisesTowardsOne ==
  k >= 1 =>
    /\ RLt(call.estimate_before[1], Estimate[1])
    /\ RLt(Estimate[1], One)
    /\ Estimate[2] = Zero
    /\ Estimate[3] = Zero

\* the fifth tick of the scenario
C8_Witness == k = 5 /\ ticks = 5 /\ Q = EyeTimes(<<1, 10>>) /\ _window_size = 120

\* C9: a reset() that follows a reset() changes no field of the estimator.
C9_ResetIsIdempotent == [][(reset /\ resets >= 1) => Estimator' = Estimator]_vars

\* two resets in a row, after an update that had moved the filter
C9_Witness == resets = 2 /\ ticks >= 1 /\ Estimate # Zeros3

\* C10: after an update in which at least one leg reported contact, the
\* filter state is the predict result corrected by exactly one measurement
\* update whose measurement is the unweighted mean of the rotated
\* -Jacobian * joint_velocities of exactly the legs in contact (leg i using
\* motor velocities 3i .. 3i+2), and that state is what was smoothed.
C10_OneUpdateWithContactMean ==
  (k >= 1 /\ ContactLegs(robot) # {} /\ call.raised = "none") =>
    LET predicted == KalmanPredict(call.x_before, call.P_before, Q,
                       VScale(CalibratedAcc(robot), call.delta_time_s))
        once == KalmanUpdate(predicted.x, predicted.P, R, ContactMeasurement(robot))
    IN  /\ x = once.x
        /\ P = once.P
        /\ raw[Len(raw)] = x

\* two legs in contact whose velocities differ, and a correction that moved x
C10_Witness ==
  /\ k = 2
  /\ ContactLegs(robot) = {1, 2}
  /\ LegDerivedVelocity(robot, 1) # LegDerivedVelocity(robot, 2)
  /\ x # VAdd(call.x_before, VScale(CalibratedAcc(robot), call.delta_time_s))

============================================================================
